---- MODULE Spec2Model ----
(***************************************************************************)
(* Model of apologies' decision core: reward.py (RewardCalculatorV1) and   *)
(* source.py (RandomInputSource, RewardInputSource, RewardV1InputSource    *)
(* and the source() factory).                                              *)
(*                                                                         *)
(* The state is one client call frame: the function being called, its      *)
(* arguments, the locals of RewardInputSource.choose_move while it runs,   *)
(* and the value returned or the exception raised.                         *)
(***************************************************************************)
EXTENDS Integers, Sequences, FiniteSets, TLC

VARIABLES
    pc,           \* "idle" | "evaluating" | "returned" | "raised"
    op,           \* function of the current frame: "none" | "source" | "range" | "calculate" | "choose_move"
    self,         \* class of the source choose_move is called on, or "none"
    name,         \* argument of source(), or "none"
    players,      \* argument of range(), or 0
    view,         \* PlayerView argument (calculate, choose_move), or <<>>
    legal_moves,  \* List[Move] argument of choose_move
    evaluator,    \* graph of the caller's pure evaluator as far as it has been called: move -> PlayerView
    calls,        \* log of the evaluator invocations of this frame: <<view, move>>
    evaluated,    \* local list `evaluated` of choose_move: <<move, score>> pairs
    result,       \* returned value, or <<>>
    error         \* raised exception class, or "none"

vars == <<pc, op, self, name, players, view, legal_moves, evaluator, calls, evaluated, result, error>>

----------------------------------------------------------------------------
(* Bounds of the model *)

MaxOpponents == 2   \* opponents in a view passed to calculate: 0..MaxOpponents
MaxMoves == 3       \* len(legal_moves): 0..MaxMoves
MaxPlayers == 4     \* range(players): players in 1..MaxPlayers
MaxOver == 1        \* a distance above the theoretical maximum: 65 + MaxOver

----------------------------------------------------------------------------
(* Values of the game-state collaborator (game.py, rules.py) *)

None == <<>>

\* Position.safe is Optional[int]: <<>> for None, <<k>> for square k of the safe zone.
Pawn(d, h, s) == [distance |-> d, position |-> [home |-> h, safe |-> s]]

Player(ps) == [pawns |-> ps]

PlayerView(p, os) == [player |-> p, opponents |-> os]

Move(k) == [move |-> k]

GameMode == {"STANDARD", "ADULT"}

\* BoardRules.distance_to_home(pawn): an integer the rules collaborator reports.
distance_to_home(pawn) == pawn.distance

\* Player.all_pawns_in_home(): the win condition.
all_pawns_in_home(player) ==
    \A i \in 1..Len(player.pawns) : player.pawns[i].position.home

\* float(n) of an integer n: exact for |n| < 2^53, kept as a value of its own type.
float(n) == [f |-> n]

RECURSIVE SumSeq(_)
SumSeq(s) == IF s = <<>> THEN 0 ELSE Head(s) + SumSeq(Tail(s))

----------------------------------------------------------------------------
(* reward.py: RewardCalculatorV1 *)

\* Mutant: the sum starts at the second pawn.
_distance_incentive_skips_first(player) ==
    LET distance == SumSeq([i \in 1..(Len(player.pawns) - 1) |-> distance_to_home(player.pawns[i + 1])])
    IN  260 - distance

_distance_incentive(player) ==
    LET distance == SumSeq([i \in 1..Len(player.pawns) |-> distance_to_home(player.pawns[i])])
    IN  260 - distance

\* Mutant: only pawns in home count, not pawns in the safe zone.
_safe_incentive_home_only(player) ==
    SumSeq([i \in 1..Len(player.pawns) |-> IF player.pawns[i].position.home THEN 10 ELSE 0])

_safe_incentive(player) ==
    SumSeq([i \in 1..Len(player.pawns) |->
              IF player.pawns[i].position.home \/ player.pawns[i].position.safe # None
              THEN 10 ELSE 0])

\* Mutant: 100 for each pawn in home.
_winner_incentive_per_pawn(player) ==
    SumSeq([i \in 1..Len(player.pawns) |-> IF player.pawns[i].position.home THEN 100 ELSE 0])

_winner_incentive(player) ==
    IF all_pawns_in_home(player) THEN 100 ELSE 0

_player_score(player) ==
    _distance_incentive(player) + _safe_incentive(player) + _winner_incentive(player)

\* Mutant: the reward is not floored at 0.
_reward_unclamped(v) ==
    LET player_score == _player_score(v.player)
        opponent_scores == [i \in 1..Len(v.opponents) |-> _player_score(v.opponents[i])]
    IN  (Len(v.opponents) * player_score) - SumSeq(opponent_scores)

\* Mutant: the player's score is not multiplied by the number of opponents.
_reward_unscaled(v) ==
    LET player_score == _player_score(v.player)
        opponent_scores == [i \in 1..Len(v.opponents) |-> _player_score(v.opponents[i])]
        reward == player_score - SumSeq(opponent_scores)
    IN  IF reward < 0 THEN 0 ELSE reward

_reward(v) ==
    LET player_score == _player_score(v.player)
        opponent_scores == [i \in 1..Len(v.opponents) |-> _player_score(v.opponents[i])]
        reward == (Len(v.opponents) * player_score) - SumSeq(opponent_scores)
    IN  IF reward < 0 THEN 0 ELSE reward

calculate(v) == float(_reward(v))

\* Mutant: 400 points per player, not per opponent.
range_per_player(p) == <<float(0), float(p * 400)>>

range(p) == <<float(0), float((p - 1) * 400)>>

----------------------------------------------------------------------------
(* source.py *)

\* list.sort(reverse=True, key=lambda e: e[1]): a stable sort, so entries with equal
\* keys keep their relative order; the entry e goes after every entry whose key is
\* greater than or equal to its own.
RECURSIVE insert_desc(_, _)
insert_desc(sorted, e) ==
    IF sorted = <<>> THEN <<e>>
    ELSE IF Head(sorted)[2].f >= e[2].f
         THEN <<Head(sorted)>> \o insert_desc(Tail(sorted), e)
         ELSE <<e>> \o sorted

\* Mutant: a descending sort that is not stable (entries with equal keys end up in
\* reverse order, as when an ascending sort is reversed).
RECURSIVE insert_before_equal(_, _)
insert_before_equal(sorted, e) ==
    IF sorted = <<>> THEN <<e>>
    ELSE IF Head(sorted)[2].f > e[2].f
         THEN <<Head(sorted)>> \o insert_before_equal(Tail(sorted), e)
         ELSE <<e>> \o sorted

RECURSIVE sort_reverse_unstable(_)
sort_reverse_unstable(l) ==
    IF l = <<>> THEN <<>>
    ELSE insert_before_equal(sort_reverse_unstable(SubSeq(l, 1, Len(l) - 1)), l[Len(l)])

RECURSIVE sort_reverse(_)
sort_reverse(l) ==
    IF l = <<>> THEN <<>>
    ELSE insert_desc(sort_reverse(SubSeq(l, 1, Len(l) - 1)), l[Len(l)])

\* Mutant: the list is walked from its end.
move_at_reversed(moves, i) == moves[Len(moves) - i + 1]

\* The move the list comprehension of choose_move visits at its i-th iteration.
move_at(moves, i) == moves[i]

\* RewardV1InputSource.calculate, given the view the evaluator returned for the move.
source_calculate(move, post) == <<move, calculate(post)>>

\* Mutant: evaluated[0][1], the score of the pair and not its move.
highest_scoring_score(sorted) == sorted[1][2]

\* evaluated[0][0]
highest_scoring_move(sorted) == sorted[1][1]

\* What pydoc.locate(name) finds for the names that resolve: a class, whether it is a
\* CharacterInputSource, and whether it still has an abstract method.
Namespace ==
    [n \in {"apologies.source.RandomInputSource", "apologies.source.RewardV1InputSource",
            "apologies.source.RewardInputSource", "apologies.reward.RewardCalculatorV1"} |->
        CASE n = "apologies.source.RandomInputSource" ->
                [class |-> TRUE, source |-> TRUE, abstract |-> FALSE, cls |-> "RandomInputSource"]
          [] n = "apologies.source.RewardV1InputSource" ->
                [class |-> TRUE, source |-> TRUE, abstract |-> FALSE, cls |-> "RewardV1InputSource"]
          [] n = "apologies.source.RewardInputSource" ->
                [class |-> TRUE, source |-> TRUE, abstract |-> TRUE, cls |-> "RewardInputSource"]
          [] n = "apologies.reward.RewardCalculatorV1" ->
                [class |-> TRUE, source |-> FALSE, abstract |-> FALSE, cls |-> "RewardCalculatorV1"]]

\* locate returns None for a name that resolves to nothing.
NotLocated == [class |-> FALSE, source |-> FALSE, abstract |-> FALSE, cls |-> "None"]

locate(n) == IF n \in DOMAIN Namespace THEN Namespace[n] ELSE NotLocated

\* source(name): the class instantiated, or the exception raised.
\* issubclass(cls, ...) raises TypeError when cls is not a class (None);
\* cls() raises TypeError when the class still has abstract methods.
source(n) ==
    LET cls == locate(n)
    IN  IF ~cls.class THEN [raised |-> "TypeError", instance |-> "none"]
        ELSE IF ~cls.source THEN [raised |-> "ValueError", instance |-> "none"]
        ELSE IF cls.abstract THEN [raised |-> "TypeError", instance |-> "none"]
        ELSE [raised |-> "none", instance |-> cls.cls]

----------------------------------------------------------------------------
(* Inputs *)

NumPawns == 4       \* pawns of a player in the reference configuration
MaxDistance == 65   \* distance_to_home of a pawn in start

Home == Pawn(0, TRUE, None)
Start == Pawn(MaxDistance, FALSE, None)
\* A pawn on square k of the safe zone, taken 5 - k squares from home.
Safe(k) == Pawn(5 - k, FALSE, <<k>>)
Beyond == Pawn(MaxDistance + MaxOver, FALSE, None)

\* Pawns of the reference configuration: in home, in the safe zone, in start.
PawnSamples == <<Home, Safe(2), Start>>

\* A player's score does not depend on the order of its pawns, nor a reward on the
\* order of the opponents: one list stands for each multiset.
PawnIndexes ==
    {ix \in [1..NumPawns -> 1..Len(PawnSamples)] : \A i \in 1..(NumPawns - 1) : ix[i] <= ix[i + 1]}

RECURSIVE Rank(_)
Rank(ix) == IF ix = <<>> THEN 0 ELSE Rank(SubSeq(ix, 1, Len(ix) - 1)) * (Len(PawnSamples) + 1) + ix[Len(ix)]

PlayerOf(ix) == Player([i \in 1..NumPawns |-> PawnSamples[ix[i]]])

Players == {PlayerOf(ix) : ix \in PawnIndexes}

OpponentLists ==
    UNION {{[i \in 1..n |-> PlayerOf(o[i])] :
              o \in {q \in [1..n -> PawnIndexes] : \A i \in 1..(n - 1) : Rank(q[i]) <= Rank(q[i + 1])}} :
           n \in 0..MaxOpponents}

\* Players no board reports: every pawn beyond the maximum distance; a pawn flagged
\* home and safe at a positive distance; fewer pawns than four.
OddPlayers ==
    {Player(<<Beyond, Beyond, Beyond, Beyond>>),
     Player(<<Pawn(3, TRUE, <<1>>), Home, Home, Home>>),
     Player(<<Home, Start>>)}

OddViews ==
    {PlayerView(p, [i \in 1..n |-> q]) :
        p \in OddPlayers \cup {Player(<<Home, Home, Home, Home>>)},
        q \in OddPlayers \cup {Player(<<Start, Start, Start, Start>>)},
        n \in 0..MaxOpponents}

\* Views calculate is called with directly.
Views == {PlayerView(p, os) : p \in Players, os \in OpponentLists} \cup OddViews

\* Pawns the evaluator may report the acting player's first pawn as: in home, in the
\* safe zone, in start, near home with no flag, and flagged home at a positive
\* distance (the sources accept whatever view the evaluator returns).
MovedPawns == {Home, Safe(2), Safe(4), Start, Pawn(4, FALSE, None), Pawn(3, TRUE, None)}

\* Views choose_move is called with.
ChoosePlayers ==
    {Player(<<Safe(0), Home, Home, Home>>)}
        \cup {Player(<<p, Start, Start, Start>>) : p \in {Safe(0), Safe(2), Start}}

ChooseOpponents ==
    {<<Player(<<Start, Start, Start, Start>>)>>,
     <<Player(<<Home, Home, Home, Safe(2)>>), Player(<<Start, Start, Start, Start>>)>>}

ChooseViews == {PlayerView(p, os) : p \in ChoosePlayers, os \in ChooseOpponents}

\* Views the evaluator may return for a move played from v: v itself (a forfeit) or
\* v with the acting player's first pawn moved.
PostViews(v) ==
    {v} \cup {PlayerView(Player([v.player.pawns EXCEPT ![1] = q]), v.opponents) : q \in MovedPawns}

Moves == {Move(k) : k \in 1..MaxMoves}

\* The sources never look into a move, so one list stands for all its renamings:
\* the first entry is Move(1), and an entry not seen before is numbered next.
\* An entry may repeat an earlier one.
Fresh(l, i) == 1 + Cardinality({l[j] : j \in 1..(i - 1)})

MoveLists ==
    UNION {{l \in [1..n -> Moves] : \A i \in 1..n : l[i].move <= Fresh(l, i)} : n \in 0..MaxMoves}

SourceNames == DOMAIN Namespace \cup {"apologies.source.NotARealClass"}

----------------------------------------------------------------------------
(* The state machine *)

Init ==
    /\ pc = "idle"
    /\ op = "none"
    /\ self = "none"
    /\ name = "none"
    /\ players = 0
    /\ view = <<>>
    /\ legal_moves = <<>>
    /\ evaluator = <<>>
    /\ calls = <<>>
    /\ evaluated = <<>>
    /\ result = <<>>
    /\ error = "none"

\* source(name)
Source ==
    /\ pc = "idle"
    /\ \E n \in SourceNames :
        LET r == source(n)
        IN  /\ name' = n
            /\ op' = "source"
            /\ pc' = IF r.raised = "none" THEN "returned" ELSE "raised"
            /\ error' = r.raised
            /\ result' = r.instance
    /\ UNCHANGED <<self, players, view, legal_moves, evaluator, calls, evaluated>>

\* RewardCalculatorV1.range(players)
Range ==
    /\ pc = "idle"
    /\ \E p \in 1..MaxPlayers :
        /\ players' = p
        /\ result' = range(p)
    /\ op' = "range"
    /\ pc' = "returned"
    /\ UNCHANGED <<self, name, view, legal_moves, evaluator, calls, evaluated, error>>

\* RewardCalculatorV1.calculate(view)
Calculate ==
    /\ pc = "idle"
    /\ \E v \in Views :
        /\ view' = v
        /\ result' = calculate(v)
    /\ op' = "calculate"
    /\ pc' = "returned"
    /\ UNCHANGED <<self, name, players, legal_moves, evaluator, calls, evaluated, error>>

\* RandomInputSource.choose_move(mode, view, legal_moves, unused):
\* random.choice(legal_moves), which raises IndexError on an empty list.
RandomChooseMove ==
    /\ pc = "idle"
    /\ \E mode \in GameMode, v \in ChooseViews, l \in MoveLists :
        /\ view' = v
        /\ legal_moves' = l
        /\ \/ /\ l # <<>>
              /\ \E i \in 1..Len(l) : result' = l[i]
              /\ pc' = "returned"
              /\ error' = "none"
           \/ /\ l = <<>>
              /\ result' = <<>>
              /\ pc' = "raised"
              /\ error' = "IndexError"
    /\ op' = "choose_move"
    /\ self' = "RandomInputSource"
    /\ UNCHANGED <<name, players, evaluator, calls, evaluated>>

\* RewardV1InputSource.choose_move(mode, view, legal_moves, evaluator) is entered.
RewardChooseMove ==
    /\ pc = "idle"
    /\ \E mode \in GameMode, v \in ChooseViews, l \in MoveLists :
        /\ view' = v
        /\ legal_moves' = l
    /\ op' = "choose_move"
    /\ self' = "RewardV1InputSource"
    /\ pc' = "evaluating"
    /\ evaluated' = <<>>
    /\ calls' = <<>>
    /\ evaluator' = <<>>
    /\ UNCHANGED <<name, players, result, error>>

\* One iteration of the list comprehension: self.calculate(view, move, evaluator),
\* where evaluator(view, move) returns. The evaluator is pure: called again with
\* the same move it returns the same view.
Evaluate ==
    /\ pc = "evaluating"
    /\ Len(evaluated) < Len(legal_moves)
    /\ LET move == move_at(legal_moves, Len(evaluated) + 1)
       IN  /\ calls' = Append(calls, <<view, move>>)
           /\ \E post \in PostViews(view) :
                /\ \A k \in 1..Len(evaluator) : evaluator[k][1] = move => evaluator[k][2] = post
                /\ evaluator' = Append(evaluator, <<move, post>>)
                /\ evaluated' = Append(evaluated, source_calculate(move, post))
    /\ UNCHANGED <<pc, op, self, name, players, view, legal_moves, result, error>>

\* One iteration of the list comprehension where evaluator(view, move) raises:
\* nothing catches it, so it leaves choose_move.
EvaluatorRaises ==
    /\ pc = "evaluating"
    /\ Len(evaluated) < Len(legal_moves)
    /\ LET move == move_at(legal_moves, Len(evaluated) + 1)
       IN  /\ \A k \in 1..Len(evaluator) : evaluator[k][1] # move
           /\ calls' = Append(calls, <<view, move>>)
    /\ pc' = "raised"
    /\ error' = "EvaluatorError"
    /\ UNCHANGED <<op, self, name, players, view, legal_moves, evaluator, evaluated, result>>

\* evaluated.sort(...); return evaluated[0][0]
SortAndReturn ==
    /\ pc = "evaluating"
    /\ Len(evaluated) = Len(legal_moves)
    /\ evaluated' = sort_reverse(evaluated)
    /\ \/ /\ evaluated # <<>>
          /\ result' = highest_scoring_move(evaluated')
          /\ pc' = "returned"
          /\ error' = "none"
       \/ /\ evaluated = <<>>
          /\ result' = <<>>
          /\ pc' = "raised"
          /\ error' = "IndexError"
    /\ UNCHANGED <<op, self, name, players, view, legal_moves, evaluator, calls>>

\* The frame is left: the caller has the result or the exception.
Return ==
    /\ pc \in {"returned", "raised"}
    /\ pc' = "idle"
    /\ op' = "none"
    /\ self' = "none"
    /\ name' = "none"
    /\ players' = 0
    /\ view' = <<>>
    /\ legal_moves' = <<>>
    /\ evaluator' = <<>>
    /\ calls' = <<>>
    /\ evaluated' = <<>>
    /\ result' = <<>>
    /\ error' = "none"

Next ==
    \/ Source
    \/ Range
    \/ Calculate
    \/ RandomChooseMove
    \/ RewardChooseMove
    \/ Evaluate
    \/ EvaluatorRaises
    \/ SortAndReturn
    \/ Return

Spec == Init /\ [][Next]_vars

\* choose_move is an ordinary synchronous call: once entered it keeps running, and
\* each evaluator invocation comes back (with a view or an exception).
FairSpec == Spec /\ WF_vars(Evaluate \/ EvaluatorRaises) /\ WF_vars(SortAndReturn)

----------------------------------------------------------------------------
(* Vocabulary of the properties *)

InRewardChooseMove == op = "choose_move" /\ self = "RewardV1InputSource"

\* <<view, reward>> for every view this frame has passed to RewardCalculatorV1.calculate.
\* While choose_move is evaluating, evaluated[k] is the pair made from evaluator[k].
Scored ==
    IF op = "calculate" /\ pc = "returned" THEN {<<view, result>>}
    ELSE IF InRewardChooseMove /\ pc = "evaluating"
         THEN {<<evaluator[k][2], evaluated[k][2]>> : k \in 1..Len(evaluated)}
         ELSE {}

\* Every player this frame has scored.
ScoredPlayers ==
    UNION {{sv[1].player} \cup {sv[1].opponents[i] : i \in 1..Len(sv[1].opponents)} : sv \in Scored}

Flagged(pawn) == pawn.position.home \/ pawn.position.safe # None

TotalDistance(player) == SumSeq([i \in 1..Len(player.pawns) |-> player.pawns[i].distance])

\* max(0, n * score(player) - sum of score(o) over the n opponents o)
ComparativeReward(v) ==
    LET n == Len(v.opponents)
        raw == n * _player_score(v.player) - SumSeq([i \in 1..n |-> _player_score(v.opponents[i])])
    IN  IF raw > 0 THEN raw ELSE 0

\* 4 pawns per player, each distance in 0..65, and distance 0 for a pawn in home.
ReferencePlayer(player) ==
    /\ Len(player.pawns) = NumPawns
    /\ \A i \in 1..NumPawns :
        /\ player.pawns[i].distance \in 0..MaxDistance
        /\ player.pawns[i].position.home => player.pawns[i].distance = 0

ReferenceView(v) ==
    /\ ReferencePlayer(v.player)
    /\ \A i \in 1..Len(v.opponents) : ReferencePlayer(v.opponents[i])

\* The view the evaluator returned for the i-th legal move, and its reward.
PostOf(i) == (CHOOSE e \in {evaluator[k] : k \in 1..Len(evaluator)} : e[1] = legal_moves[i])[2]

ScoreOf(i) == calculate(PostOf(i)).f

\* The pawns of player p that differ in player q.
Changed(p, q) == {i \in 1..Len(p.pawns) : p.pawns[i] # q.pawns[i]}

\* q is p with exactly one pawn changed, to a strictly smaller distance.
OneCloser(p, q) ==
    /\ Len(p.pawns) = Len(q.pawns)
    /\ Cardinality(Changed(p, q)) = 1
    /\ \A i \in Changed(p, q) : q.pawns[i].distance < p.pawns[i].distance

Gain(p, q) == SumSeq([i \in 1..Len(p.pawns) |-> p.pawns[i].distance - q.pawns[i].distance])

LosesSafety(p, q) == \E i \in Changed(p, q) : Flagged(p.pawns[i]) /\ ~Flagged(q.pawns[i])

LosesHome(p, q) == \E i \in Changed(p, q) : p.pawns[i].position.home /\ ~q.pawns[i].position.home

\* The acting players of the views the evaluator has returned in this frame, each
\* with the opponents of the original view.
PostPlayers ==
    IF InRewardChooseMove
    THEN {evaluator[k][2].player : k \in {j \in 1..Len(evaluator) : evaluator[j][2].opponents = view.opponents}}
    ELSE {}

----------------------------------------------------------------------------
(* Properties *)

\* C1: when RewardV1InputSource.choose_move returns, the move it returns is an
\* entry of legal_moves.
C1_ReturnsLegalMove ==
    (InRewardChooseMove /\ pc = "returned") =>
        \E i \in 1..Len(legal_moves) : result = legal_moves[i]

C1_Witness ==
    /\ InRewardChooseMove /\ pc = "returned"
    /\ Len(legal_moves) = 3
    /\ result = legal_moves[2]
    /\ result # legal_moves[1]

\* C2: the move returned has a score no lower than that of any legal move, and it
\* is the first entry of legal_moves that has this highest score.
C2_FirstHighestScore ==
    (InRewardChooseMove /\ pc = "returned") =>
        \E i \in 1..Len(legal_moves) :
            /\ result = legal_moves[i]
            /\ \A j \in 1..Len(legal_moves) : ScoreOf(i) >= ScoreOf(j)
            /\ \A j \in 1..(i - 1) : ScoreOf(j) < ScoreOf(i)

\* Two different moves tie for the highest score and a third scores lower.
C2_Witness ==
    /\ InRewardChooseMove /\ pc = "returned"
    /\ Len(legal_moves) = 3
    /\ legal_moves[2] # legal_moves[3]
    /\ ScoreOf(2) = ScoreOf(3)
    /\ ScoreOf(1) < ScoreOf(2)
    /\ PostOf(2) # PostOf(3)
    /\ result = legal_moves[2]

\* C3: every reward calculate returns is greater than or equal to 0.
C3_RewardNonNegative ==
    \A sv \in Scored : sv[2].f >= 0

\* A view whose raw reward is negative, with a pawn beyond the maximum distance.
C3_Witness ==
    \E sv \in Scored :
        /\ sv[2].f = 0
        /\ Len(sv[1].opponents) = 2
        /\ _player_score(sv[1].player) < 0
        /\ 2 * _player_score(sv[1].player) < _player_score(sv[1].opponents[1]) + _player_score(sv[1].opponents[2])

\* C4: with n >= 1 opponents the reward is max(0, n * score(player) - sum of the
\* opponents' scores), the same score function applied to every player.
C4_ComparativeReward ==
    \A sv \in Scored :
        Len(sv[1].opponents) >= 1 => sv[2].f = ComparativeReward(sv[1])

\* Two opponents, a positive reward, and an acting score that differs from it.
C4_Witness ==
    \E sv \in Scored :
        /\ Len(sv[1].opponents) = 2
        /\ sv[2].f > 0
        /\ sv[2].f # _player_score(sv[1].player)
        /\ _player_score(sv[1].opponents[1]) # _player_score(sv[1].opponents[2])
        /\ _player_score(sv[1].opponents[1]) > 0

\* C5: a player's score is (260 - total distance) + 10 per pawn in home or in the
\* safe zone + 100 when all its pawns are in home; four pawns in home at distance 0
\* score 400.
C5_PlayerScore ==
    \A p \in ScoredPlayers :
        /\ _player_score(p) =
              (260 - TotalDistance(p))
              + 10 * Cardinality({i \in 1..Len(p.pawns) : Flagged(p.pawns[i])})
              + (IF \A i \in 1..Len(p.pawns) : p.pawns[i].position.home THEN 100 ELSE 0)
        /\ p = Player(<<Home, Home, Home, Home>>) => _player_score(p) = 400

C5_Witness ==
    /\ Player(<<Home, Home, Home, Home>>) \in ScoredPlayers
    /\ \E p \in ScoredPlayers :
        /\ \E i \in 1..Len(p.pawns) : p.pawns[i].position.safe # None
        /\ \E i \in 1..Len(p.pawns) : ~Flagged(p.pawns[i])

\* C6: source(name) raises ValueError when name resolves to no type and when it
\* resolves to a type that is not a CharacterInputSource.
C6_RejectsWithValueError ==
    (op = "source" /\ (~locate(name).class \/ ~locate(name).source)) =>
        (pc = "raised" /\ error = "ValueError")

\* C7: range(p) is (0, 400 * (p - 1)).
C7_Range ==
    (op = "range" /\ pc = "returned") =>
        (result[1].f = 0 /\ result[2].f = 400 * (players - 1) /\ Len(result) = 2)

C7_Witness ==
    /\ op = "range" /\ pc = "returned"
    /\ players = 3
    /\ result[2].f = 800

C9_WithinRange ==
    \A sv \in Scored :
        ReferenceView(sv[1]) =>
            /\ range(Len(sv[1].opponents) + 1)[1].f <= sv[2].f
            /\ sv[2].f <= range(Len(sv[1].opponents) + 1)[2].f
            /\ sv[2].f <= 400 * Len(sv[1].opponents)
            /\ Len(sv[1].opponents) = 0 => sv[2].f = 0

\* The upper end of the range is attained against two opponents.
C9_Witness ==
    \E sv \in Scored :
        /\ ReferenceView(sv[1])
        /\ Len(sv[1].opponents) = 2
        /\ sv[2].f = 800

\* C10: during RewardV1InputSource.choose_move the evaluator is invoked once per
\* entry of legal_moves, in list order, each time with the view passed in; view and
\* legal_moves do not change; and, unless the evaluator raises, the call returns a
\* move after exactly len(legal_moves) invocations.
C10_LinearScan ==
    /\ [](InRewardChooseMove =>
            /\ Len(calls) <= Len(legal_moves)
            /\ \A k \in 1..Len(calls) : calls[k] = <<view, legal_moves[k]>>
            /\ pc = "evaluating" => Len(calls) = Len(evaluated)
            /\ pc = "returned" => Len(calls) = Len(legal_moves))
    /\ [][(InRewardChooseMove /\ pc = "evaluating") =>
            (view' = view /\ legal_moves' = legal_moves)]_vars
    /\ ((InRewardChooseMove /\ pc = "evaluating" /\ legal_moves # <<>>)
            ~> (pc = "returned" \/ error = "EvaluatorError"))

\* The same move twice in a list of three: three invocations all the same.
C10_Witness ==
    /\ InRewardChooseMove /\ pc = "returned"
    /\ Len(calls) = 3
    /\ legal_moves[1] = legal_moves[3]
    /\ legal_moves[1] # legal_moves[2]

====
